---- MODULE Spec2Model ----
(***************************************************************************)
(* TelegramCalls plugin (index.ts): capability resolution over the host's  *)
(* module registry, the monkey-patched join/leave wrappers, the call-start *)
(* and call-end policy, the watchdog timer and the onLoad/onUnload         *)
(* lifecycle, together with the settings component (settings.tsx).         *)
(*                                                                         *)
(* A host object is identified by a handle [mod, sub]; a function value is *)
(* a sequence of wrapper ids, outermost first: <<>> is the host's own      *)
(* method, <<k>> \o f is the wrapper that patch k put around f.  Two       *)
(* function values are the same reference exactly when they are equal.     *)
(* A capability call is recorded as [obj, m, arg] with the argument        *)
(* written as the source writes it ("0", "48000", "true").  The host has   *)
(* one join/leave call in flight at a time.                                *)
(*                                                                         *)
(* Spec is index.ts as built; SpecFlags reads the policy against every     *)
(* flag combination; SpecEngine follows the media engine's flags behind    *)
(* its setters; SpecSwap lets the host change its registry after load;     *)
(* SpecSettings adds the settings component; SpecLocator calls the two     *)
(* lookups of the module locator on registries of every shape.             *)
(***************************************************************************)
EXTENDS Integers, Sequences, FiniteSets

VARIABLES
    globalThis,     \* the host: module registry and NativeModules
    caps,           \* the module-level capability handles of index.ts
    Settings,       \* the Settings object of index.ts
    uiSettings,     \* globalThis.__TelegramCallsSettings of settings.tsx
    updCount,       \* number of checkbox toggles so far (bounded)
    methods,        \* the join/leave method slots of the host's objects
    patches,        \* the patches array: unpatch closures, in push order
    nextId,         \* serial of the next wrapper/unpatch closure
    unpatchCalls,   \* spy: how often each unpatch closure has been invoked
    intervalId,     \* 0 stands for undefined/null
    timers,         \* the host's active interval timers
    loads,          \* number of onLoad calls so far (bounded)
    sinceUnload,    \* history: onLoad calls since the last onUnload
    preLoad,        \* history: the method slots before the first onLoad since unload
    revertFailures, \* number of onUnload calls in which an unpatch closure threw (bounded)
    inflight,       \* the host's join/leave call in flight, if any
    budget,         \* how many onLoad calls and failing onUnload calls the run may
                    \* make, and whether it follows the media engine's flags
    dsp,            \* the media engine's echo-cancellation, noise-suppression and AGC flags
    last            \* what the most recent step did (spies on the capabilities)

vars == <<globalThis, caps, Settings, uiSettings, updCount, methods, patches,
          nextId, unpatchCalls, intervalId, timers, loads, sinceUnload,
          preLoad, revertFailures, inflight, budget, dsp, last>>

\* ---------------------------------------------------------------- bounds

MaxLoads == 2
MaxLoadsFlags == 1
MaxRevertFailures == 1
MaxUpd == 1

\* ------------------------------------------------------------ host shapes

Null == [mod |-> 0, sub |-> "null"]

\* A module record: its exports, the default sub-object if any, whether reading
\* its exports throws, and the displayName / name of the object that
\* `exp?.default ?? exp` yields ("" for undefined).
Mod(exports) ==
    [exports |-> exports, hasDefault |-> FALSE, dflt |-> {}, throwing |-> FALSE,
     displayName |-> "", name |-> ""]
ModDefault(exports, dflt) == [Mod(exports) EXCEPT !.hasDefault = TRUE, !.dflt = dflt]
ModThrowing == [Mod({}) EXCEPT !.throwing = TRUE]
ModNamed(displayName, name) == [Mod({"render"}) EXCEPT !.displayName = displayName, !.name = name]
NoNative == [present |-> FALSE, props |-> {}]
Native(props) == [present |-> TRUE, props |-> props]

VoiceStoreMod == Mod({"getCurrentVoiceChannelId", "isInCall"})
MediaFullMod ==
    Mod({"setSelfMute", "setInputVolume", "setNoiseSuppression", "setEchoCancellation",
         "setAutomaticGainControl", "setOpusEncoderEnableFEC", "setOpusBitrate"})
MediaNoAgcMod ==
    Mod({"setSelfMute", "setInputVolume", "setNoiseSuppression", "setEchoCancellation"})
MediaBareMod == Mod({"setNoiseSuppression", "setEchoCancellation"})
AttenuationMod == Mod({"getAttenuation", "setAttenuation"})
AudioManagerMod == Mod({"setMode", "setSpeakerphoneOn"})
DeviceMod == Mod({"isHeadsetConnected", "isBluetoothConnected"})
PlayerMod == ModDefault({"version"}, {"setChannelCount", "setSampleRate"})
OutputConfigMod == Mod({"setOutputConfig"})
ExplicitCtrlMod == Mod({"joinCall", "leaveCall"})
GenericCtrlMod == Mod({"join", "leave", "setLocalMute"})
BareCtrlMod == Mod({"join", "leave"})
BothCtrlMod == Mod({"join", "leave", "setLocalMute", "joinCall", "leaveCall"})

\* A host: the module objects it has, the ones its registry lists, the access
\* point of globalThis that carries the registry, the replacements the host
\* may make in the registry, and the two NativeModules bridges.
Host(modules, rnc, am) ==
    [modules |-> modules, registered |-> 1..Len(modules), access |-> "modules",
     swaps |-> {}, RNCAudioManager |-> rnc, AudioManager |-> am]

\* Everything bound, explicit joinCall/leaveCall controller, bridge in the registry;
\* a second player module that the host may register in place of the first.
HostExplicit ==
    [Host(<<VoiceStoreMod, MediaFullMod, AttenuationMod, AudioManagerMod,
            DeviceMod, PlayerMod, ExplicitCtrlMod, PlayerMod>>, NoNative, NoNative)
       EXCEPT !.registered = 1..7, !.swaps = {[out |-> 6, in |-> 8]}]
\* Generic join/leave/setLocalMute controller, bridge from NativeModules.
HostGeneric ==
    Host(<<VoiceStoreMod, MediaNoAgcMod, AttenuationMod, DeviceMod,
           OutputConfigMod, GenericCtrlMod>>, NoNative, Native({"setMode"}))
\* Only a {join, leave} controller and a media engine with the two setters.
HostBare == Host(<<BareCtrlMod, MediaBareMod>>, NoNative, NoNative)
\* Only a {join, leave, setLocalMute} controller and a media engine without AGC.
HostGenericNoAgc == Host(<<GenericCtrlMod, MediaNoAgcMod>>, NoNative, NoNative)
\* No voice store, media engine or player; controller with both pairs; a native
\* bridge without setMode.
HostNoVoice ==
    Host(<<AttenuationMod, DeviceMod, BothCtrlMod>>,
         Native({"setSpeakerphoneOn"}), Native({"setMode"}))
\* No device manager and no controller.
HostNoDevice ==
    Host(<<VoiceStoreMod, AttenuationMod, AudioManagerMod, MediaFullMod>>, NoNative, NoNative)

Hosts == {HostExplicit, HostGeneric, HostBare, HostGenericNoAgc, HostNoVoice, HostNoDevice}

\* Registries for the locator alone: empty, unavailable, behind each access
\* point, with records whose exports access throws, with named components.
SheetMod == [ModNamed("ActionSheet", "") EXCEPT !.hasDefault = TRUE]
ButtonMod == ModNamed("", "Button")
RegEmpty == Host(<<>>, NoNative, NoNative)
RegUnavailable ==
    [Host(<<VoiceStoreMod, SheetMod>>, NoNative, NoNative) EXCEPT !.access = "none"]
RegThrowFirst ==
    Host(<<ModThrowing, VoiceStoreMod, SheetMod, ButtonMod, PlayerMod>>, NoNative, NoNative)
RegThrowMiddle ==
    Host(<<AttenuationMod, SheetMod, ModThrowing, ButtonMod, MediaFullMod, GenericCtrlMod>>,
         NoNative, NoNative)
RegThrowLast ==
    Host(<<DeviceMod, ButtonMod, AudioManagerMod, ExplicitCtrlMod, ModThrowing>>,
         NoNative, NoNative)
RegNoThrow ==
    Host(<<OutputConfigMod, SheetMod, ButtonMod, MediaNoAgcMod>>, NoNative, NoNative)
RegViaGetModules == [RegNoThrow EXCEPT !.access = "__r.getModules"]
RegViaRModules == [RegThrowMiddle EXCEPT !.access = "__r.modules"]
RegViaCModules == [RegThrowFirst EXCEPT !.access = "__c.modules"]

LocatorHosts ==
    {RegEmpty, RegUnavailable, RegThrowFirst, RegThrowMiddle, RegThrowLast, RegNoThrow,
     RegViaGetModules, RegViaRModules, RegViaCModules}

\* The member signatures index.ts looks up, and component names.
LookupProps ==
    {{"getCurrentVoiceChannelId", "isInCall"},
     {"setSelfMute", "setInputVolume", "setNoiseSuppression"},
     {"getAttenuation", "setAttenuation"}, {"setMode", "setSpeakerphoneOn"},
     {"isHeadsetConnected", "isBluetoothConnected"}, {"join", "leave", "setLocalMute"},
     {"joinCall", "leaveCall"}, {"setChannelCount", "setSampleRate"}, {"setOutputConfig"}}
LookupNames == {"ActionSheet", "Button", "Missing"}

JoinNames == {"join", "joinCall"}
LeaveNames == {"leave", "leaveCall"}

\* The capability methods a host may make throw.
CapabilityMethods ==
    {"isInCall", "isHeadsetConnected", "setAttenuation", "setMode", "setChannelCount",
     "setSampleRate", "setEchoCancellation", "setNoiseSuppression",
     "setAutomaticGainControl", "setOpusEncoderEnableFEC", "setOpusBitrate"}


\* -------------------------------------------------------- module locator

\* getModules: the registry found at the first access point that has one, as the
\* set of the module objects it lists (scanned in ascending order); [] if none.
AccessPoints == {"modules", "__r.getModules", "__r.modules", "__c.modules"}
getModules == IF globalThis.access \in AccessPoints THEN globalThis.registered ELSE {}

PropsOf(h) ==
    IF h.sub = "exports" THEN globalThis.modules[h.mod].exports
    ELSE IF h.sub = "default" THEN globalThis.modules[h.mod].dflt
    ELSE IF h.sub = "RNCAudioManager" THEN globalThis.RNCAudioManager.props
    ELSE IF h.sub = "AudioManager" THEN globalThis.AudioManager.props
    ELSE {}

Has(h, m) == h # Null /\ m \in PropsOf(h)

\* One iteration of the loop of findByProps: the exports, else its default.
matchModule(i, props) ==
    LET mod == globalThis.modules[i] IN
    IF mod.throwing THEN Null
    ELSE IF props \subseteq mod.exports THEN [mod |-> i, sub |-> "exports"]
    ELSE IF mod.hasDefault /\ props \subseteq mod.dflt THEN [mod |-> i, sub |-> "default"]
    ELSE Null

\* The scan of findByProps over the registry reg: the first match.
findIn(reg, props) ==
    LET hits == {i \in reg : matchModule(i, props) # Null} IN
    IF hits = {} THEN Null
    ELSE matchModule(CHOOSE i \in hits : \A j \in hits : i <= j, props)

findByProps(props) == findIn(getModules, props)

\* `exp?.default ?? exp` of a module record.
candidate(i) ==
    IF globalThis.modules[i].hasDefault THEN [mod |-> i, sub |-> "default"]
    ELSE [mod |-> i, sub |-> "exports"]

nameMatches(i, name) ==
    globalThis.modules[i].displayName = name \/ globalThis.modules[i].name = name

\* findByDisplayName with the loop body in a try/catch, as in findByProps.
findByDisplayNameCatching(reg, name) ==
    LET hits == {i \in reg : ~globalThis.modules[i].throwing /\ nameMatches(i, name)} IN
    IF hits = {} THEN [found |-> Null, threw |-> FALSE]
    ELSE [found |-> candidate(CHOOSE i \in hits : \A j \in hits : i <= j), threw |-> FALSE]

\* The scan of findByDisplayName over the registry reg: `mod?.exports` of a
\* record whose exports access throws is not inside any try.
findByDisplayNameIn(reg, name) ==
    LET stops == {i \in reg : globalThis.modules[i].throwing \/ nameMatches(i, name)}
        first == CHOOSE i \in stops : \A j \in stops : i <= j
    IN  IF stops = {} THEN [found |-> Null, threw |-> FALSE]
        ELSE IF globalThis.modules[first].throwing THEN [found |-> Null, threw |-> TRUE]
        ELSE [found |-> candidate(first), threw |-> FALSE]

findByDisplayName(name) == findByDisplayNameIn(getModules, name)

Or(a, b) == IF a # Null THEN a ELSE b

\* The capability methods some host object has: only these can throw.
AvailableMethods ==
    {m \in CapabilityMethods :
        \/ \E i \in DOMAIN globalThis.modules :
              m \in globalThis.modules[i].exports \cup globalThis.modules[i].dflt
        \/ m \in globalThis.RNCAudioManager.props \cup globalThis.AudioManager.props}

\* The sets of methods that throw during one entry point, among the methods ms
\* it can reach: none, one, or all of those the host has.
ThrowSets(ms) ==
    LET can == ms \cap AvailableMethods IN {{}} \cup {{m} : m \in can} \cup {can}

\* ---------------------------------------------------- capability resolver

resolveAudioManagerNative ==
    IF globalThis.RNCAudioManager.present THEN [mod |-> 0, sub |-> "RNCAudioManager"]
    ELSE IF globalThis.AudioManager.present THEN [mod |-> 0, sub |-> "AudioManager"]
    ELSE findByProps({"setMode", "setSpeakerphoneOn"})

resolveVoiceConnection ==
    Or(findByProps({"join", "leave", "setLocalMute"}), findByProps({"joinCall", "leaveCall"}))

resolveCapabilities ==
    [VoiceStore |-> findByProps({"getCurrentVoiceChannelId", "isInCall"}),
     MediaEngine |-> findByProps({"setSelfMute", "setInputVolume", "setNoiseSuppression"}),
     AttenuationStore |-> findByProps({"getAttenuation", "setAttenuation"}),
     AudioManagerNative |-> resolveAudioManagerNative,
     DeviceManager |-> findByProps({"isHeadsetConnected", "isBluetoothConnected"}),
     VoiceConnection |-> resolveVoiceConnection]

\* ------------------------------------------------------------ settings

DefaultSettings ==
    [forceModeNormalOnWired |-> TRUE, keepStereoMedia |-> TRUE,
     disableAttenuation |-> TRUE, relaxMicDSP |-> TRUE, verboseLogs |-> FALSE]

SettingKeys == DOMAIN DefaultSettings

\* -------------------------------------------------------- policy actions

Call(obj, m, arg) == [obj |-> obj, m |-> m, arg |-> arg]

\* The optional calls (obj.m?.(...)) that exist on their object.
Present(cs) == SelectSeq(cs, LAMBDA c : Has(c.obj, c.m))

\* A try block: the calls up to and including the first that throws.
RunUntilThrow(cs, thr) ==
    LET bad == {i \in 1..Len(cs) : cs[i].m \in thr} IN
    IF bad = {} THEN cs
    ELSE SubSeq(cs, 1, CHOOSE i \in bad : \A j \in bad : i <= j)

isWiredHeadphonesCalls ==
    Present(<<Call(caps.DeviceManager, "isHeadsetConnected", "")>>)

\* isWiredHeadphones answering true whenever the query exists.
isWiredIgnoringResult(hs, thr) == Has(caps.DeviceManager, "isHeadsetConnected")

isWiredHeadphones(hs, thr) ==
    /\ Has(caps.DeviceManager, "isHeadsetConnected")
    /\ "isHeadsetConnected" \notin thr
    /\ hs

safeSetAudioModeNormal ==
    Present(<<Call(caps.AudioManagerNative, "setMode", "0")>>)

ensureMediaStreamNotDucked ==
    Present(<<Call(caps.AttenuationStore, "setAttenuation", "0")>>)

relaxMicProcessing(thr) ==
    IF caps.MediaEngine = Null THEN <<>>
    ELSE RunUntilThrow(
            Present(<<Call(caps.MediaEngine, "setEchoCancellation", "false"),
                      Call(caps.MediaEngine, "setNoiseSuppression", "false"),
                      Call(caps.MediaEngine, "setAutomaticGainControl", "false"),
                      Call(caps.MediaEngine, "setOpusEncoderEnableFEC", "true"),
                      Call(caps.MediaEngine, "setOpusBitrate", "64000")>>), thr)

preferStereoOutput(thr) ==
    LET Player == Or(findByProps({"setChannelCount", "setSampleRate"}),
                     findByProps({"setOutputConfig"})) IN
    RunUntilThrow(Present(<<Call(Player, "setChannelCount", "2"),
                            Call(Player, "setSampleRate", "48000")>>), thr)

forceModeNormal(hs, thr) ==
    isWiredHeadphonesCalls
        \o (IF isWiredHeadphones(hs, thr) THEN safeSetAudioModeNormal ELSE <<>>)

\* onCallStart without its flag tests.
onCallStartNoFlags(hs, thr) ==
    ensureMediaStreamNotDucked \o preferStereoOutput(thr) \o relaxMicProcessing(thr)
        \o forceModeNormal(hs, thr)

onCallStart(hs, thr) ==
    (IF Settings.disableAttenuation THEN ensureMediaStreamNotDucked ELSE <<>>)
        \o (IF Settings.keepStereoMedia THEN preferStereoOutput(thr) ELSE <<>>)
        \o (IF Settings.relaxMicDSP THEN relaxMicProcessing(thr) ELSE <<>>)
        \o (IF Settings.forceModeNormalOnWired THEN forceModeNormal(hs, thr) ELSE <<>>)

\* A call end that also gave the attenuation and the routing mode back.
onCallEndRevertingAll(thr) ==
    (IF Settings.relaxMicDSP /\ caps.MediaEngine # Null
     THEN RunUntilThrow(
            Present(<<Call(caps.MediaEngine, "setEchoCancellation", "true"),
                      Call(caps.MediaEngine, "setNoiseSuppression", "true"),
                      Call(caps.MediaEngine, "setAutomaticGainControl", "true")>>), thr)
     ELSE <<>>)
        \o Present(<<Call(caps.AttenuationStore, "setAttenuation", "100"),
                     Call(caps.AudioManagerNative, "setMode", "3")>>)

onCallEnd(thr) ==
    IF Settings.relaxMicDSP /\ caps.MediaEngine # Null
    THEN RunUntilThrow(
            Present(<<Call(caps.MediaEngine, "setEchoCancellation", "true"),
                      Call(caps.MediaEngine, "setNoiseSuppression", "true"),
                      Call(caps.MediaEngine, "setAutomaticGainControl", "true")>>), thr)
    ELSE <<>>

\* ------------------------------------------------ interception layer

Key(obj, name) == [obj |-> obj, name |-> name]

Handles ==
    {[mod |-> i, sub |-> "exports"] : i \in DOMAIN globalThis.modules}
        \cup {[mod |-> i, sub |-> "default"] :
                 i \in {j \in DOMAIN globalThis.modules : globalThis.modules[j].hasDefault}}

\* The join/leave method slots that exist on the host's objects.
MethodKeys ==
    {k \in {Key(h, n) : h \in Handles, n \in JoinNames \cup LeaveNames} : Has(k.obj, k.name)}

\* monkeyPatch: capture obj[method], store the wrapper, return the unpatch closure.
monkeyPatch(ms, key, id) ==
    [methods |-> [ms EXCEPT ![key] = <<id>> \o @],
     un |-> [id |-> id, key |-> key, orig |-> ms[key]]]

\* The closure returned by monkeyPatch, run without throwing.
unpatchKeep(ms, p) == ms
unpatch(ms, p) == [ms EXCEPT ![p.key] = p.orig]

patchPair(w, obj, j, l) ==
    LET p1 == monkeyPatch(w.methods, Key(obj, j), w.nextId)
        p2 == monkeyPatch(p1.methods, Key(obj, l), w.nextId + 1)
    IN  [methods |-> p2.methods,
         patches |-> w.patches \o <<p1.un, p2.un>>,
         nextId |-> w.nextId + 2]

\* patchVoiceJoinLeave without the generic join/leave fallback.
patchVoiceJoinLeaveNoFallback(w) ==
    LET vc == caps.VoiceConnection IN
    IF vc # Null /\ Has(vc, "joinCall") /\ Has(vc, "leaveCall")
    THEN patchPair(w, vc, "joinCall", "leaveCall") ELSE w

\* w = [methods, patches, nextId]
patchVoiceJoinLeave(w) ==
    LET vc == caps.VoiceConnection IN
    IF vc = Null THEN w
    ELSE IF Has(vc, "joinCall") /\ Has(vc, "leaveCall") THEN patchPair(w, vc, "joinCall", "leaveCall")
    ELSE IF Has(vc, "join") /\ Has(vc, "leave") THEN patchPair(w, vc, "join", "leave")
    ELSE w

\* for (const un of ...) try { un(); } catch {}: a closure in `failing` throws
\* before its assignment takes effect.
\* The result is the method slots and the closures invoked, in order.
RECURSIVE runFrom(_, _, _, _)
runFrom(ps, ms, failing, invoked) ==
    IF ps = <<>> THEN [methods |-> ms, invoked |-> invoked]
    ELSE runFrom(Tail(ps),
                 IF Head(ps).id \in failing THEN ms ELSE unpatch(ms, Head(ps)),
                 failing,
                 Append(invoked, [id |-> Head(ps).id, name |-> Head(ps).key.name]))

\* Without the try/catch the loop would end at the first closure that throws.
RECURSIVE runUnpatchesNoCatch(_, _, _)
runUnpatchesNoCatch(ps, ms, failing) ==
    LET r == runFrom(<<Head(ps)>>, ms, failing, <<>>) IN
    IF ps = <<>> THEN [methods |-> ms, invoked |-> <<>>]
    ELSE IF Head(ps).id \in failing THEN r
    ELSE LET rest == runUnpatchesNoCatch(Tail(ps), r.methods, failing) IN
         [methods |-> rest.methods, invoked |-> r.invoked \o rest.invoked]

runUnpatches(ps, ms, failing) == runFrom(ps, ms, failing, <<>>)

\* patches.splice(0) leaves the array empty.
patchesAfterSplice(ps) == <<>>

\* ---------------------------------------------------------------- watchdog

stopWatchdog(w) ==
    [intervalId |-> 0,
     timers |-> IF w.intervalId # 0 THEN w.timers \ {w.intervalId} ELSE w.timers]

\* startWatchdog without its stopWatchdog() call.
startWatchdogNoStop(w, fresh) ==
    [intervalId |-> fresh, timers |-> w.timers \cup {fresh}]

startWatchdog(w, fresh) ==
    LET s == stopWatchdog(w) IN
    [intervalId |-> fresh, timers |-> s.timers \cup {fresh}]

\* The interval callback without its in-call test.
tickNoGuard(ic, thr) ==
    [calls |-> (IF Settings.disableAttenuation THEN ensureMediaStreamNotDucked ELSE <<>>)
                 \o (IF Settings.keepStereoMedia THEN preferStereoOutput(thr) ELSE <<>>),
     escaped |-> FALSE]
\* The interval callback running the whole call-start policy when in a call.
tickFullPolicy(ic, thr) ==
    IF ~Has(caps.VoiceStore, "isInCall") THEN [calls |-> <<>>, escaped |-> FALSE]
    ELSE LET q == <<Call(caps.VoiceStore, "isInCall", "")>> IN
         IF "isInCall" \in thr THEN [calls |-> q, escaped |-> TRUE]
         ELSE IF ~ic THEN [calls |-> q, escaped |-> FALSE]
         ELSE [calls |-> q \o onCallStart(TRUE, thr), escaped |-> FALSE]
\* The interval callback: [calls, escaped].
watchdogTick(ic, thr) ==
    IF ~Has(caps.VoiceStore, "isInCall") THEN [calls |-> <<>>, escaped |-> FALSE]
    ELSE LET q == <<Call(caps.VoiceStore, "isInCall", "")>> IN
         IF "isInCall" \in thr THEN [calls |-> q, escaped |-> TRUE]
         ELSE IF ~ic THEN [calls |-> q, escaped |-> FALSE]
         ELSE [calls |-> q \o (IF Settings.disableAttenuation THEN ensureMediaStreamNotDucked ELSE <<>>)
                           \o (IF Settings.keepStereoMedia THEN preferStereoOutput(thr) ELSE <<>>),
               escaped |-> FALSE]

\* The check of onLoad running the call-start policy whatever isInCall() answers.
loadCheckIgnoringAnswer(ic, hs, thr) ==
    IF ~Has(caps.VoiceStore, "isInCall") THEN [calls |-> <<>>, starts |-> 0]
    ELSE LET q == <<Call(caps.VoiceStore, "isInCall", "")>> IN
         IF "isInCall" \in thr THEN [calls |-> q, starts |-> 0]
         ELSE [calls |-> q \o onCallStart(hs, thr), starts |-> 1]
\* try { if (VoiceStore?.isInCall?.()) onCallStart(); } catch {}: [calls, starts]
loadInCallCheck(ic, hs, thr) ==
    IF ~Has(caps.VoiceStore, "isInCall") THEN [calls |-> <<>>, starts |-> 0]
    ELSE LET q == <<Call(caps.VoiceStore, "isInCall", "")>> IN
         IF "isInCall" \in thr \/ ~ic THEN [calls |-> q, starts |-> 0]
         ELSE [calls |-> q \o onCallStart(hs, thr), starts |-> 1]

\* ------------------------------------------------- join/leave wrappers

\* What a call hands to a function: the receiver and the arguments.
Invocation(recv, args) == [recv |-> recv, args |-> args]
NoInvocation == Invocation(Null, "none")

\* orig() in place of orig.apply(this, args).
wrapperCallBare(call) == NoInvocation
\* orig.apply(this, args): what a wrapper called with `call` hands to its original.
wrapperCall(call) == Invocation(call.recv, call.args)

\* What the host's own method receives when `call` enters a chain of wrappers.
RECURSIVE callThrough(_, _)
callThrough(chain, call) ==
    IF chain = <<>> THEN call ELSE callThrough(Tail(chain), wrapperCall(call))

\* A join wrapper that ran the call-start policy also after a rejection.
joinWrapperAlwaysStarts(outcome, hs, thr) ==
    [calls |-> onCallStart(hs, thr), starts |-> 1, ends |-> 0, outcome |-> outcome]

\* The part of a join wrapper after `await orig.apply(this, args)`: the hook and
\* `return res` when the original resolved; the rejection passes through.
\* The outcome stands for the value or the reason the promise settles with.
joinWrapperResume(outcome, hs, thr) ==
    IF outcome = "resolved"
    THEN [calls |-> onCallStart(hs, thr), starts |-> 1, ends |-> 0, outcome |-> "resolved"]
    ELSE [calls |-> <<>>, starts |-> 0, ends |-> 0, outcome |-> "rejected"]

\* A leave wrapper without its finally block.
leaveWrapperNoFinally(outcome, thr) ==
    IF outcome = "resolved"
    THEN [calls |-> onCallEnd(thr), starts |-> 0, ends |-> 1, outcome |-> "resolved"]
    ELSE [calls |-> <<>>, starts |-> 0, ends |-> 0, outcome |-> "rejected"]

\* The part of a leave wrapper after the await: try { ...; onCallEnd() } finally { onCallEnd() }
leaveWrapperResume(outcome, thr) ==
    IF outcome = "resolved"
    THEN [calls |-> onCallEnd(thr) \o onCallEnd(thr), starts |-> 0, ends |-> 2,
          outcome |-> "resolved"]
    ELSE [calls |-> onCallEnd(thr), starts |-> 0, ends |-> 1, outcome |-> "rejected"]

\* ------------------------------------------------------------ observation

MethodsIn(calls) == {calls[i].m : i \in 1..Len(calls)}

Query(calls, m, result, thr) ==
    IF m \notin MethodsIn(calls) THEN "none"
    ELSE IF m \in thr THEN "throw"
    ELSE IF result THEN "true" ELSE "false"

Idle(op) ==
    [op |-> op, calls |-> <<>>, inCall |-> "none", headset |-> "none", threwAny |-> FALSE,
     starts |-> 0, ends |-> 0, escaped |-> FALSE, kind |-> "none", outcome |-> "none",
     settled |-> "none", wrapped |-> FALSE, over |-> FALSE, loaded |-> FALSE,
     query |-> {}, found |-> Null,
     reverted |-> <<>>, threw |-> {}, loadsBefore |-> 0]

Obs(op, calls, ic, hs, thr) ==
    [Idle(op) EXCEPT
        !.calls = calls,
        !.threwAny = (MethodsIn(calls) \cap thr # {}),
        !.inCall = Query(calls, "isInCall", ic, thr),
        !.headset = Query(calls, "isHeadsetConnected", hs, thr)]

\* The media engine behind its setters: a call that does not throw stores its
\* argument in the flag; a call that throws leaves the flag as it was.
DspSetter ==
    [ec |-> "setEchoCancellation", ns |-> "setNoiseSuppression",
     agc |-> "setAutomaticGainControl"]

DspEnabled == [f \in DOMAIN DspSetter |-> TRUE]

mediaEngineAfter(d, calls, thr) ==
    IF ~budget.engine THEN d ELSE
    [f \in DOMAIN DspSetter |->
        LET hits == {i \in 1..Len(calls) : calls[i].m = DspSetter[f] /\ calls[i].m \notin thr} IN
        IF hits = {} THEN d[f]
        ELSE calls[CHOOSE i \in hits : \A j \in hits : j <= i].arg = "true"]

\* ------------------------------------------------------------------ Init

NoCall ==
    [active |-> FALSE, kind |-> "none", chain |-> <<>>, outcome |-> "none", loaded |-> FALSE,
     host |-> NoInvocation, orig |-> NoInvocation]

\* The state after index.ts and settings.tsx have been evaluated.
InitWith(hosts, flags, maxLoads, maxFailures, engine) ==
    /\ globalThis \in hosts
    /\ caps = resolveCapabilities
    /\ Settings \in flags
    /\ uiSettings = DefaultSettings
    /\ updCount = 0
    /\ methods = [k \in MethodKeys |-> <<>>]
    /\ patches = <<>>
    /\ nextId = 1
    /\ unpatchCalls = <<>>
    /\ intervalId = 0
    /\ timers = {}
    /\ loads = 0
    /\ sinceUnload = 0
    /\ preLoad = methods
    /\ revertFailures = 0
    /\ inflight = NoCall
    /\ budget = [loads |-> maxLoads, failures |-> maxFailures, engine |-> engine]
    /\ dsp = DspEnabled
    /\ last = Idle("init")

Init == InitWith(Hosts, {DefaultSettings}, MaxLoads, MaxRevertFailures, FALSE)

\* The policy flags as inputs: every combination of the four flags the policy reads.
FlagCombinations ==
    {s \in [SettingKeys -> BOOLEAN] : s.verboseLogs = DefaultSettings.verboseLogs}

InitFlags == InitWith(Hosts, FlagCombinations, MaxLoadsFlags, 0, FALSE)

\* The default flags, with the media engine's flags followed.
InitEngine == InitWith(Hosts, {DefaultSettings}, MaxLoadsFlags, 0, TRUE)

\* The locator alone, over registries of every shape.
InitLocator == InitWith(LocatorHosts, {DefaultSettings}, 0, 0, FALSE)

\* --------------------------------------------------------------- actions

\* export const onLoad
OnLoad(ic, hs, thr) ==
    /\ loads < budget.loads
    /\ LET w == patchVoiceJoinLeave([methods |-> methods, patches |-> patches, nextId |-> nextId])
           t == startWatchdog([intervalId |-> intervalId, timers |-> timers], loads + 1)
           c == loadInCallCheck(ic, hs, thr)
       IN  /\ methods' = w.methods
           /\ patches' = w.patches
           /\ nextId' = w.nextId
           /\ unpatchCalls' = unpatchCalls \o [i \in 1..(w.nextId - nextId) |-> 0]
           /\ intervalId' = t.intervalId
           /\ timers' = t.timers
           /\ dsp' = mediaEngineAfter(dsp, c.calls, thr)
           /\ last' = [Obs("onLoad", c.calls, ic, hs, thr) EXCEPT
                          !.starts = c.starts, !.loadsBefore = sinceUnload]
    /\ loads' = loads + 1
    /\ sinceUnload' = sinceUnload + 1
    /\ preLoad' = IF sinceUnload = 0 THEN methods ELSE preLoad
    /\ UNCHANGED <<globalThis, caps, Settings, uiSettings, updCount, revertFailures,
                   inflight, budget>>

\* export const onUnload
OnUnload(failing, thr) ==
    /\ failing \subseteq {patches[i].id : i \in 1..Len(patches)}
    /\ failing # {} => revertFailures < budget.failures
    /\ LET t == stopWatchdog([intervalId |-> intervalId, timers |-> timers])
           r == runUnpatches(patches, methods, failing)
       IN  /\ methods' = r.methods
           /\ patches' = patchesAfterSplice(patches)
           /\ unpatchCalls' = [i \in 1..Len(unpatchCalls) |->
                                 unpatchCalls[i]
                                   + Cardinality({j \in 1..Len(r.invoked) : r.invoked[j].id = i})]
           /\ intervalId' = t.intervalId
           /\ timers' = t.timers
           /\ dsp' = mediaEngineAfter(dsp, onCallEnd(thr), thr)
           /\ last' = [Obs("onUnload", onCallEnd(thr), FALSE, FALSE, thr) EXCEPT
                          !.ends = 1, !.reverted = r.invoked, !.threw = failing,
                          !.loadsBefore = sinceUnload]
    /\ sinceUnload' = 0
    /\ revertFailures' = IF failing # {} THEN revertFailures + 1 ELSE revertFailures
    /\ UNCHANGED <<globalThis, caps, Settings, uiSettings, updCount, nextId, loads,
                   preLoad, inflight, budget>>

\* One firing of the setInterval callback of startWatchdog.
Tick(ic, thr) ==
    /\ timers # {}
    /\ LET r == watchdogTick(ic, thr) IN
       /\ dsp' = mediaEngineAfter(dsp, r.calls, thr)
       /\ last' = [Obs("tick", r.calls, ic, FALSE, thr) EXCEPT !.escaped = r.escaped]
    /\ UNCHANGED <<globalThis, caps, Settings, uiSettings, updCount, methods, patches,
                   nextId, unpatchCalls, intervalId, timers, loads, sinceUnload,
                   preLoad, revertFailures, inflight, budget>>

KindOf(name) == IF name \in JoinNames THEN "join" ELSE "leave"

\* The host calls one of its join/leave methods; the wrappers, if any, run up to
\* their await and the host's own method starts.
HostCall(k) ==
    /\ ~inflight.active
    /\ inflight' = [active |-> TRUE, kind |-> KindOf(k.name), chain |-> methods[k],
                    outcome |-> "pending", loaded |-> (sinceUnload > 0),
                    host |-> Invocation(k.obj, "args"),
                    orig |-> callThrough(methods[k], Invocation(k.obj, "args"))]
    /\ last' = Idle("hostCall")
    /\ UNCHANGED <<globalThis, caps, Settings, uiSettings, updCount, methods, patches,
                   nextId, unpatchCalls, intervalId, timers, loads, sinceUnload,
                   preLoad, revertFailures, budget, dsp>>

\* The host's own method settles; with no wrapper around it the call is over.
OrigSettles(outcome) ==
    /\ inflight.active
    /\ inflight.outcome = "pending"
    /\ inflight' = IF inflight.chain = <<>> THEN NoCall
                   ELSE [inflight EXCEPT !.outcome = outcome]
    /\ last' = [Idle("settle") EXCEPT !.kind = inflight.kind, !.outcome = outcome,
                                      !.settled = outcome,
                                      !.over = (inflight.chain = <<>>),
                                      !.loaded = inflight.loaded]
    /\ UNCHANGED <<globalThis, caps, Settings, uiSettings, updCount, methods, patches,
                   nextId, unpatchCalls, intervalId, timers, loads, sinceUnload,
                   preLoad, revertFailures, budget, dsp>>

\* What the innermost wrapper still awaiting does when it resumes.
wrapperResume(kind, outcome, hs, thr) ==
    IF kind = "join" THEN joinWrapperResume(outcome, hs, thr)
    ELSE leaveWrapperResume(outcome, thr)

\* The innermost wrapper still awaiting resumes, runs its hook and settles
\* with the outcome it awaited.
WrapperResume(hs, thr) ==
    /\ inflight.active
    /\ inflight.outcome # "pending"
    /\ LET r == wrapperResume(inflight.kind, inflight.outcome, hs, thr)
           rest == SubSeq(inflight.chain, 1, Len(inflight.chain) - 1)
       IN  /\ inflight' = IF rest = <<>> THEN NoCall
                          ELSE [inflight EXCEPT !.chain = rest, !.outcome = r.outcome]
           /\ dsp' = mediaEngineAfter(dsp, r.calls, thr)
           /\ last' = [Obs(IF inflight.kind = "join" THEN "joinWrapper" ELSE "leaveWrapper",
                           r.calls, FALSE, hs, thr) EXCEPT
                          !.starts = r.starts, !.ends = r.ends, !.kind = inflight.kind,
                          !.outcome = inflight.outcome, !.settled = r.outcome,
                          !.wrapped = TRUE,
                          !.over = (rest = <<>>), !.loaded = inflight.loaded]
    /\ UNCHANGED <<globalThis, caps, Settings, uiSettings, updCount, methods, patches,
                   nextId, unpatchCalls, intervalId, timers, loads, sinceUnload,
                   preLoad, revertFailures, budget>>

\* The host replaces a module of its registry by another of its module objects.
RegistrySwap(s) ==
    /\ s.out \in globalThis.registered
    /\ globalThis' = [globalThis EXCEPT !.registered = (@ \ {s.out}) \cup {s.in}]
    /\ last' = Idle("swap")
    /\ UNCHANGED <<caps, Settings, uiSettings, updCount, methods, patches, nextId,
                   unpatchCalls, intervalId, timers, loads, sinceUnload, preLoad,
                   revertFailures, inflight, budget, dsp>>

\* One call of findByProps.
LocateByProps(props) ==
    /\ last' = [Idle("findByProps") EXCEPT !.query = props, !.found = findByProps(props)]
    /\ UNCHANGED <<globalThis, caps, Settings, uiSettings, updCount, methods, patches,
                   nextId, unpatchCalls, intervalId, timers, loads, sinceUnload,
                   preLoad, revertFailures, inflight, budget, dsp>>

\* One call of findByDisplayName.
LocateByDisplayName(name) ==
    /\ LET r == findByDisplayName(name) IN
       last' = [Idle("findByDisplayName") EXCEPT
                   !.query = {name}, !.found = r.found, !.escaped = r.threw]
    /\ UNCHANGED <<globalThis, caps, Settings, uiSettings, updCount, methods, patches,
                   nextId, unpatchCalls, intervalId, timers, loads, sinceUnload,
                   preLoad, revertFailures, inflight, budget, dsp>>

\* upd(k, v) of the settings component.
SettingsUpd(k, v) ==
    /\ updCount < MaxUpd
    /\ updCount' = updCount + 1
    /\ uiSettings' = [uiSettings EXCEPT ![k] = v]
    /\ last' = Idle("upd")
    /\ UNCHANGED <<globalThis, caps, Settings, methods, patches, nextId, unpatchCalls,
                   intervalId, timers, loads, sinceUnload, preLoad, revertFailures,
                   inflight, budget, dsp>>

\* The unpatch closures that throw during one onUnload: none, the first, or all.
FailingSets ==
    LET ids == {patches[i].id : i \in 1..Len(patches)} IN
    {{}} \cup {{patches[i].id} : i \in {1} \cap DOMAIN patches} \cup {ids}

\* The return values of isInCall() and isHeadsetConnected() that an entry point
\* can see: FALSE alone where it never asks.
Answers(asks) == IF asks THEN BOOLEAN ELSE {FALSE}

AsksInCall == Has(caps.VoiceStore, "isInCall")
AsksHeadset == Settings.forceModeNormalOnWired /\ Has(caps.DeviceManager, "isHeadsetConnected")

NextCore ==
    \/ \E ic \in Answers(AsksInCall), hs \in Answers(AsksHeadset) :
         \E thr \in ThrowSets(MethodsIn(loadInCallCheck(ic, hs, {}).calls)) : OnLoad(ic, hs, thr)
    \/ \E failing \in FailingSets, thr \in ThrowSets(MethodsIn(onCallEnd({}))) :
         OnUnload(failing, thr)
    \/ \E ic \in Answers(AsksInCall) :
         \E thr \in ThrowSets(MethodsIn(watchdogTick(ic, {}).calls)) : Tick(ic, thr)
    \/ \E k \in DOMAIN methods : HostCall(k)
    \/ \E outcome \in {"resolved", "rejected"} : OrigSettles(outcome)
    \/ \E hs \in Answers(AsksHeadset) :
         \E thr \in ThrowSets(MethodsIn(wrapperResume(inflight.kind, inflight.outcome, hs, {}).calls)) :
            WrapperResume(hs, thr)

Next ==
    \/ NextCore
    \/ \E k \in SettingKeys, v \in BOOLEAN : SettingsUpd(k, v)

NextSwap ==
    \/ NextCore
    \/ \E s \in globalThis.swaps : RegistrySwap(s)

\* index.ts as built: the Settings object holds its defaults.
Spec == Init /\ [][NextCore]_vars

\* index.ts together with the settings component.
SpecSettings == Init /\ [][Next]_vars

\* index.ts on a host that may change its registry after load.
SpecSwap == Init /\ [][NextSwap]_vars

NextLocator ==
    \/ \E props \in LookupProps : LocateByProps(props)
    \/ \E name \in LookupNames : LocateByDisplayName(name)

\* The two lookups of the module locator, called on their own.
SpecLocator == InitLocator /\ [][NextLocator]_vars

\* The policy read against every flag combination.
SpecFlags == InitFlags /\ [][NextCore]_vars

\* index.ts as built, seen together with the media engine behind its setters.
SpecEngine == InitEngine /\ [][NextCore]_vars

\* ---------------------------------------------------------------- claims

CountCalls(calls, m) == Cardinality({i \in 1..Len(calls) : calls[i].m = m})
Invoked(calls, m, arg) == \E i \in 1..Len(calls) : calls[i].m = m /\ calls[i].arg = arg
InPatches(id) == \E j \in 1..Len(patches) : patches[j].id = id
RevertedNames == {last.reverted[i].name : i \in 1..Len(last.reverted)}

\* C1: from the unloaded state, onLoad followed by onUnload (no unpatch closure
\* throwing) leaves every join/leave method slot holding the reference it held
\* before that onLoad, whichever pair was wrapped.
C1_LoadUnloadRestores ==
    (last.op = "onUnload" /\ last.loadsBefore = 1 /\ last.threw = {})
        => methods = preLoad

\* C1 witness: such an onUnload has reverted the wrappers of the generic pair.
C1_Witness ==
    /\ last.op = "onUnload" /\ last.loadsBefore = 1 /\ last.threw = {}
    /\ RevertedNames = {"join", "leave"}
    /\ methods = preLoad

\* The same for the explicit pair.
C1_WitnessExplicit ==
    /\ last.op = "onUnload" /\ last.loadsBefore = 1 /\ last.threw = {}
    /\ RevertedNames = {"joinCall", "leaveCall"}
    /\ methods = preLoad

\* C2: after any sequence of onLoad and onUnload calls that ends with onUnload
\* (no unpatch closure ever having thrown), every join/leave method slot holds
\* the host's original method and no wrapper remains installed.
C2_UnloadRestoresOriginals ==
    (last.op = "onUnload" /\ revertFailures = 0)
        => \A k \in DOMAIN methods : methods[k] = <<>>

\* C3: every unpatch closure that an onUnload has taken out of patches has been
\* invoked exactly once, those still in patches never; and an onUnload, also
\* one in which closures throw, leaves patches empty and no timer active, runs
\* the call-end policy once and does not throw.
C3_RevertsOnce ==
    /\ \A id \in 1..Len(unpatchCalls) :
          unpatchCalls[id] = IF InPatches(id) THEN 0 ELSE 1
    /\ last.op = "onUnload" =>
          /\ patches = <<>>
          /\ intervalId = 0 /\ timers = {}
          /\ last.ends = 1
          /\ ~last.escaped

\* C3 witness: an onUnload whose first unpatch closure threw and whose second was
\* still invoked.
C3_Witness ==
    /\ last.op = "onUnload"
    /\ Len(last.reverted) >= 2
    /\ last.reverted[1].id \in last.threw
    /\ last.reverted[2].id \notin last.threw
    /\ unpatchCalls[last.reverted[2].id] = 1
    /\ timers = {}

FlagMethods ==
    [disableAttenuation |-> {"setAttenuation"},
     keepStereoMedia |-> {"setChannelCount", "setSampleRate"},
     relaxMicDSP |-> {"setEchoCancellation", "setNoiseSuppression", "setAutomaticGainControl",
                      "setOpusEncoderEnableFEC", "setOpusBitrate"},
     forceModeNormalOnWired |-> {"setMode"}]

\* C4: a call-start policy run (from onLoad or a join wrapper) or a watchdog tick
\* invokes none of the methods belonging to a flag that is false.
C4_FalseFlagNoCalls ==
    last.op \in {"onLoad", "joinWrapper", "tick"} =>
        \A f \in DOMAIN FlagMethods :
            ~Settings[f] => MethodsIn(last.calls) \cap FlagMethods[f] = {}

\* C4 witness: a call-start run with relaxMicDSP false on a host with a media
\* engine, which still set the attenuation.
C4_Witness ==
    /\ last.op = "joinWrapper" /\ last.starts = 1
    /\ ~Settings.relaxMicDSP /\ Settings.disableAttenuation
    /\ Has(caps.MediaEngine, "setEchoCancellation")
    /\ Invoked(last.calls, "setAttenuation", "0")

\* C5: the settings object written by the settings component and the Settings
\* object read by the policy hold the same flag values.
C5_SettingsShared ==
    \A k \in SettingKeys : Settings[k] = uiSettings[k]

\* C6: a leave wrapper whose original rejected runs the call-end policy exactly
\* once: with the default flags, one setEchoCancellation(true) where the media
\* engine has the method.
C6_RejectedLeaveEndsOnce ==
    (last.op = "leaveWrapper" /\ last.outcome = "rejected") =>
        /\ last.ends = 1
        /\ CountCalls(last.calls, "setEchoCancellation")
              = IF Has(caps.MediaEngine, "setEchoCancellation") THEN 1 ELSE 0

\* C6 witness: such a wrapper run that did call the media engine.
C6_Witness ==
    /\ last.op = "leaveWrapper" /\ last.outcome = "rejected"
    /\ Invoked(last.calls, "setEchoCancellation", "true")

\* C7: no exception of a capability method escapes an entry point.
C7_NoEscape == ~last.escaped

\* C8: with VoiceStore unbound a watchdog tick invokes no capability method, and
\* onLoad neither throws nor runs the call-start policy.
C8_UnboundVoiceStore ==
    caps.VoiceStore = Null =>
        /\ last.op = "tick" => last.calls = <<>> /\ ~last.escaped
        /\ last.op = "onLoad" => last.calls = <<>> /\ last.starts = 0 /\ ~last.escaped

\* C8 witness: a tick on a host without a voice store whose attenuation store and
\* player are there to be called.
C8_Witness ==
    /\ caps.VoiceStore = Null
    /\ last.op = "tick"
    /\ caps.AttenuationStore # Null
    /\ timers # {}

\* A join call the host made after an onLoad (and before the next onUnload),
\* through the wrappers or not, over and resolved.
JoinResolvedOver ==
    /\ last.op \in {"settle", "joinWrapper"}
    /\ last.kind = "join" /\ last.outcome = "resolved" /\ last.over
    /\ last.loaded

C10_SetModeOnWired ==
    last.starts = 1 =>
        /\ (Settings.forceModeNormalOnWired /\ last.headset = "true"
                /\ Has(caps.AudioManagerNative, "setMode"))
              => /\ CountCalls(last.calls, "setMode") = 1
                 /\ \E i \in 1..Len(last.calls) :
                        last.calls[i] = Call(caps.AudioManagerNative, "setMode", "0")
        /\ (~Settings.forceModeNormalOnWired \/ last.headset # "true")
              => CountCalls(last.calls, "setMode") = 0

\* C10 witness: a run that forced MODE_NORMAL.
C10_Witness ==
    /\ last.starts = 1
    /\ Settings.forceModeNormalOnWired /\ last.headset = "true"
    /\ Invoked(last.calls, "setMode", "0")

\* Further reachable cases of C10: the query throws, and the flag is false, on a
\* host whose bridge has setMode.
C10_WitnessThrow ==
    /\ last.starts = 1 /\ last.headset = "throw"
    /\ Has(caps.AudioManagerNative, "setMode")
C10_WitnessFlagOff ==
    /\ last.starts = 1 /\ ~Settings.forceModeNormalOnWired
    /\ Has(caps.AudioManagerNative, "setMode") /\ caps.DeviceManager # Null

\* The setter m threw in the call-end run(s) that l observed: a run ends at the
\* call that throws.
ThrewInCallEnd(l, m) ==
    l.threwAny /\ l.calls # <<>> /\ l.calls[Len(l.calls)].m = m

\* C11: a resolved leave wrapper runs the call-end policy twice in a row; the
\* two runs throw nothing and leave the bound media engine's echo-cancellation,
\* noise-suppression and automatic-gain-control flags enabled, whatever they were
\* before: each flag, at the least, whose setter the engine has and which did
\* not itself throw.  (The host answers both runs alike, so the flags after the
\* first run are those after the second.)
C11_CallEndTwiceEnables ==
    (last.op = "leaveWrapper" /\ last.ends = 2) =>
        /\ ~last.escaped
        /\ \A f \in DOMAIN DspSetter :
              (Has(caps.MediaEngine, DspSetter[f]) /\ ~ThrewInCallEnd(last, DspSetter[f]))
                  => dsp[f]

\* C12: a call-end policy run (in a leave wrapper or in onUnload) invokes nothing
\* but setEchoCancellation(true), setNoiseSuppression(true) and
\* setAutomaticGainControl(true) on the bound media engine: no setAttenuation,
\* setChannelCount, setSampleRate, setMode, FEC or bitrate call.
C12_CallEndOnlyRestoresDsp ==
    last.op \in {"leaveWrapper", "onUnload"} =>
        \A i \in 1..Len(last.calls) :
            /\ last.calls[i].obj = caps.MediaEngine
            /\ last.calls[i].m \in {DspSetter[f] : f \in DOMAIN DspSetter}
            /\ last.calls[i].arg = "true"

\* C12 witness: a leave wrapper that restored the three flags on a host whose
\* attenuation store and routing bridge were there to be called.
C12_Witness ==
    /\ last.op = "leaveWrapper"
    /\ Invoked(last.calls, "setAutomaticGainControl", "true")
    /\ Has(caps.AttenuationStore, "setAttenuation")
    /\ Has(caps.AudioManagerNative, "setMode")

\* C13: a watchdog tick that finds isInCall() true invokes, besides that query,
\* only setAttenuation(0) (disableAttenuation) and setChannelCount(2) /
\* setSampleRate(48000) (keepStereoMedia), and does invoke setAttenuation(0) when
\* the flag is on and the method is there: no mic-DSP, FEC or bitrate setter, no
\* isHeadsetConnected, no setMode.  A tick that finds it false invokes nothing
\* but the query.
C13_TickReappliesOnly ==
    last.op = "tick" =>
        /\ last.inCall = "true" =>
              /\ MethodsIn(last.calls) \subseteq
                    {"isInCall", "setAttenuation", "setChannelCount", "setSampleRate"}
              /\ (Settings.disableAttenuation /\ Has(caps.AttenuationStore, "setAttenuation"))
                    => Invoked(last.calls, "setAttenuation", "0")
        /\ last.inCall = "false" => last.calls = <<Call(caps.VoiceStore, "isInCall", "")>>

\* C13 witness: an in-call tick that set the attenuation, with relaxMicDSP and
\* forceModeNormalOnWired on and the media engine, the device manager and the
\* bridge there to be called.
C13_Witness ==
    /\ last.op = "tick" /\ last.inCall = "true"
    /\ Invoked(last.calls, "setAttenuation", "0")
    /\ Invoked(last.calls, "setSampleRate", "48000")
    /\ Settings.relaxMicDSP /\ Settings.forceModeNormalOnWired
    /\ Has(caps.MediaEngine, "setEchoCancellation")
    /\ Has(caps.DeviceManager, "isHeadsetConnected")
    /\ Has(caps.AudioManagerNative, "setMode")

\* A further reachable case of C13: a tick that finds isInCall() false.
C13_WitnessNotInCall ==
    /\ last.op = "tick" /\ last.inCall = "false"
    /\ Has(caps.AttenuationStore, "setAttenuation")

\* The wrapper that the most recent onLoad put on a slot is the outermost there.
WrappersInstalled ==
    \A n \in {"join", "leave", "joinCall", "leaveCall"} :
        (\E j \in 1..Len(patches) : patches[j].key.name = n)
            => \E j \in 1..Len(patches) :
                  /\ patches[j].key.name = n
                  /\ methods[patches[j].key] # <<>>
                  /\ Head(methods[patches[j].key]) = patches[j].id

\* C14: an onLoad during which isInCall() answers true runs the call-start
\* policy exactly once (one setAttenuation(0) where the store has the method),
\* and returns with the interceptions installed and the watchdog timer running;
\* an onLoad during which it answers false invokes nothing but that query.
C14_LoadMidCall ==
    last.op = "onLoad" =>
        /\ last.inCall = "true" =>
              /\ last.starts = 1
              /\ CountCalls(last.calls, "setAttenuation")
                    = IF Has(caps.AttenuationStore, "setAttenuation") THEN 1 ELSE 0
              /\ last.calls[1] = Call(caps.VoiceStore, "isInCall", "")
        /\ last.inCall = "false" =>
              /\ last.starts = 0
              /\ last.calls = <<Call(caps.VoiceStore, "isInCall", "")>>
        /\ intervalId # 0 /\ timers = {intervalId}
        /\ WrappersInstalled
        /\ caps.VoiceConnection # Null => patches # <<>>

\* C14 witness: an onLoad in mid-call on a host with a connection controller.
C14_Witness ==
    /\ last.op = "onLoad" /\ last.inCall = "true" /\ last.starts = 1
    /\ Invoked(last.calls, "setEchoCancellation", "false")
    /\ patches # <<>>

\* A further reachable case of C14: an onLoad outside a call.
C14_WitnessNotInCall ==
    /\ last.op = "onLoad" /\ last.inCall = "false"
    /\ Has(caps.AttenuationStore, "setAttenuation")

\* The registry as it was when index.ts was evaluated, and the stereo /
\* sample-rate output control that a resolution at that moment binds.
RegistryAtLoad ==
    LET done == {s \in globalThis.swaps : s.in \in globalThis.registered} IN
    (globalThis.registered \ {s.in : s \in done}) \cup {s.out : s \in done}
PlayerAtLoad ==
    Or(findIn(RegistryAtLoad, {"setChannelCount", "setSampleRate"}),
       findIn(RegistryAtLoad, {"setOutputConfig"}))

\* C15: every capability method that a policy action invokes (at call start,
\* call end or a watchdog tick), also after the host has changed its registry,
\* is invoked on an object that was bound when index.ts was loaded: one of the
\* capability handles or the stereo / sample-rate output control of that moment.
C15_BoundOnceAtLoad ==
    \A i \in 1..Len(last.calls) :
        last.calls[i].obj \in {caps[c] : c \in DOMAIN caps} \cup {PlayerAtLoad}

\* C16: at most one watchdog timer is active in every reachable state; exactly
\* one, the one intervalId names, after an onLoad; none after an onUnload and
\* until the next onLoad, so the interval callback never fires in that time.
C16_SingleTimer ==
    /\ Cardinality(timers) <= 1
    /\ last.op = "onLoad" => (intervalId # 0 /\ timers = {intervalId})
    /\ last.op = "onUnload" => timers = {}
    /\ sinceUnload = 0 => (timers = {} /\ last.op # "tick")

\* C16 witness: a second onLoad without an onUnload in between, which replaced
\* the timer of the first.
C16_Witness ==
    /\ last.op = "onLoad" /\ last.loadsBefore = 1
    /\ timers = {intervalId} /\ intervalId = 2

\* A further reachable case of C16: an onUnload after two onLoad calls.
C16_WitnessUnload ==
    /\ last.op = "onUnload" /\ last.loadsBefore = 2
    /\ timers = {}

WrapperOps == {"joinWrapper", "leaveWrapper"}

\* C17: the join/leave wrappers pass the call through.  The host's own method
\* receives the receiver and the arguments the host called with, through one
\* wrapper or several; no policy hook runs when the call is made nor while the
\* original is pending; a wrapper that resumes has an original that settled,
\* and settles as it did (resolved with its value, or rejected with its
\* reason); a join wrapper whose original rejected invokes nothing.
C17_WrappersPassThrough ==
    /\ inflight.active => inflight.orig = inflight.host
    /\ last.op = "hostCall" => (last.calls = <<>> /\ last.starts = 0 /\ last.ends = 0)
    /\ (inflight.active /\ inflight.outcome = "pending") => last.op \notin WrapperOps
    /\ last.op \in WrapperOps =>
          /\ last.outcome \in {"resolved", "rejected"}
          /\ last.settled = last.outcome
          /\ (last.op = "joinWrapper" /\ last.outcome = "resolved") =>
                (last.starts = 1 /\ last.ends = 0)
          /\ (last.op = "joinWrapper" /\ last.outcome = "rejected") =>
                (last.starts = 0 /\ last.ends = 0 /\ last.calls = <<>>)
          /\ last.op = "leaveWrapper" => (last.starts = 0 /\ last.ends >= 1)

\* C17 witness: a join wrapper whose original rejected, on a host whose
\* attenuation store was there to be called: nothing invoked, rejection passed on.
C17_Witness ==
    /\ last.op = "joinWrapper" /\ last.outcome = "rejected"
    /\ last.settled = "rejected" /\ last.over
    /\ Has(caps.AttenuationStore, "setAttenuation")

\* Further reachable cases of C17: a call that entered two wrappers, and a leave
\* wrapper passing a rejection on.
C17_WitnessChain ==
    /\ inflight.active /\ Len(inflight.chain) = 2 /\ inflight.outcome = "pending"
    /\ inflight.orig = Invocation(caps.VoiceConnection, "args")
C17_WitnessLeave ==
    /\ last.op = "leaveWrapper" /\ last.outcome = "rejected" /\ last.settled = "rejected"

\* The registry without the records whose exports access throws.
Readable == {i \in getModules : ~globalThis.modules[i].throwing}

\* C18: neither lookup throws; a record whose exports access throws is skipped
\* and the scan goes on, so the result is the first match among the other
\* records; with the registry unavailable or empty the result is null.
C18_LookupsNeverThrow ==
    /\ last.op \in {"findByProps", "findByDisplayName"} =>
          /\ ~last.escaped
          /\ getModules = {} => last.found = Null
    /\ last.op = "findByProps" => last.found = findIn(Readable, last.query)
    /\ last.op = "findByDisplayName" =>
          \A name \in last.query : last.found = findByDisplayNameCatching(Readable, name).found

\* C19: once an onUnload has returned and until the next onLoad (no unpatch
\* closure ever having thrown), no step runs the call-start policy and no
\* watchdog tick fires, whatever was in flight when the onUnload ran.
C19_NoStartAfterUnload ==
    (loads > 0 /\ sinceUnload = 0 /\ revertFailures = 0) =>
        (last.starts = 0 /\ last.op # "tick")

DspDisabled == [f \in DOMAIN DspSetter |-> FALSE]

\* C20: when the call-start policy has left echo cancellation, noise
\* suppression and automatic gain control disabled on the bound media engine,
\* the next leave wrapper that completes, or the next onUnload, leaves the three
\* flags enabled: each flag, at the least, whose setter did not itself throw.
C20_CallEndRestores ==
    [][(dsp = DspDisabled /\ last'.op \in {"leaveWrapper", "onUnload"})
          => \A f \in DOMAIN DspSetter :
                ~ThrewInCallEnd(last', DspSetter[f]) => dsp'[f]]_vars

====
